---- MODULE Spec2Model ----
(***************************************************************************)
(* A model of jifbox's web.py: the Service config documents kept in the    *)
(* mongo "services" collection, the two registered services (dropbox,      *)
(* tumblr), the /giffed broadcast and the OAuth authorize / callback /     *)
(* logout handlers.                                                        *)
(*                                                                         *)
(* Specifications:                                                         *)
(*   SpecReg  processes importing the module concurrently: each builds the *)
(*            `services` registry, i.e. runs Service.register (and the     *)
(*            DROPBOX_TOKEN assignment) against the shared collection;     *)
(*   Spec     one constructed process serving requests on concurrent       *)
(*            threads that share the in-memory `_config` dicts;            *)
(*   SpecFlow the Dropbox authorize-start and callback of that process;    *)
(*   SpecCallback  the callbacks of both providers of that process.        *)
(***************************************************************************)
EXTENDS Integers, Sequences, FiniteSets, TLC

\* ------------------------------------------------------------- bounds
NumProcs == 2
MaxRequests == 2
MaxIssue == 2
MaxTok == 2

\* ------------------------------------------------------------ values
Services == {"dropbox", "tumblr"}
\* Two request threads: the races of this model are between two requests.
Threads == {1, 2}
Procs == 1..NumProcs
DocIds == 1..(NumProcs * Cardinality(Services))

\* A key that a dict does not hold (stored values are positive) ...
Absent == 0
\* ... and Python's None, which dict.get returns for it.
None == -1

\* A document of the collection / a `_config` dict. id = 0: no document (None).
NoDoc ==
  [id |-> 0, service_id |-> "none", access_token |-> Absent,
   request_token |-> Absent, request_secret |-> Absent]

\* doc = {'service_id': self.service_id}, stored under a new _id.
NewDoc(id, sid) ==
  [id |-> id, service_id |-> sid, access_token |-> Absent,
   request_token |-> Absent, request_secret |-> Absent]

VARIABLES
  store,      \* mongo.services: DocIds -> document (NoDoc where there is none)
  config,     \* the serving process's services[sid]._config
  avail,      \* sid -> is_available (client key/secret/hostname in os.environ)
  order,      \* the iteration order of services.items()
  session,    \* flask session['dropbox-auth-csrf-token'] (0: not set)
  issued,     \* request tokens the OAuth1 server has issued so far
  th,         \* per thread: the request it handles and where it is
  resp,       \* the request handled last, with its response
  nreq,       \* requests started
  failed,     \* a persistence write has failed (history)
  cbSeen,     \* state tokens of handled approved, well-formed callbacks (history)
  boot,       \* per starting process: where its module import is (SpecReg)
  envToken    \* os.environ has DROPBOX_TOKEN (SpecReg)

vars ==
  <<store, config, avail, order, session, issued, th, resp, nreq, failed,
    cbSeen, boot, envToken>>

\* ------------------------------------------------------------ Service
\* Service.__getitem__: self._config.get(key)
getitem(doc, key) == IF doc[key] = Absent THEN None ELSE doc[key]

\* `key in self._config`
haskey(doc, key) == doc[key] # Absent

\* self._config[key] = value
setitem_mem(doc, key, value) == [doc EXCEPT ![key] = value]

\* A delete that drops every field the document has gained.
delitem_all(doc, key) == NewDoc(doc.id, doc.service_id)

\* del self._config[key]
delitem_mem(doc, key) == [doc EXCEPT ![key] = Absent]

\* A write that removes the document instead of replacing it.
saveRemove(st, doc) == [st EXCEPT ![doc.id] = NoDoc]

\* mongo.services.save(doc) of a document that has an _id: replace it.
save(st, doc) == [st EXCEPT ![doc.id] = doc]

\* bool(x) of a stored value
Bool(x) == x # None

\* DropboxService.is_enabled / TumblrService.is_enabled
is_enabled(doc) == Bool(getitem(doc, "access_token"))

\* DropboxService.is_available / TumblrService.is_available
is_available(sid) == avail[sid]

\* The documents of the collection with this service_id.
DocsOf(st, sid) == {d \in DocIds : st[d].service_id = sid}

\* mongo.services.find_one({'service_id': sid}): the first match or None.
find_one(st, sid) ==
  IF DocsOf(st, sid) = {} THEN NoDoc
  ELSE st[CHOOSE d \in DocsOf(st, sid) : \A e \in DocsOf(st, sid) : d <= e]

\* The _id a save of a document without one inserts under.
FreshId(st) ==
  CHOOSE d \in DocIds : st[d].id = 0 /\ \A e \in DocIds : st[e].id = 0 => d <= e

\* ------------------------------------------------------------ threads
NoArg == [state |-> 0, kind |-> "none"]

Idle ==
  [h |-> "idle", pc |-> "idle", ops |-> <<>>, snap |-> NoDoc, pre |-> NoDoc,
   todo |-> <<>>, active |-> {}, log |-> {}, rt |-> None, rs |-> None,
   arg |-> NoArg,
   status |-> 0, exc |-> "none", replay |-> FALSE]

\* A request is taken by an idle thread (the threads are interchangeable: the
\* lowest-numbered idle one takes it).
IdleThread(t) ==
  /\ th[t].pc = "idle"
  /\ \A u \in Threads : u < t => th[u].pc # "idle"

CanStart(t) == IdleThread(t) /\ nreq < MaxRequests


Begin(t, rec) ==
  /\ th' = [th EXCEPT ![t] = rec]
  /\ nreq' = nreq + 1

\* The response of a handler: an HTTP status, and the exception that escaped.
Done(r, status, exc) == [r EXCEPT !.pc = "done", !.status = status, !.exc = exc]

\* The handler on thread t ends with this record; the thread is idle again.
Finish(t, r, status, exc) ==
  /\ th' = [th EXCEPT ![t] = Idle]
  /\ resp' = Done(r, status, exc)

SetOp(sid, key, value) == [kind |-> "set", svc |-> sid, key |-> key, val |-> value]
DelOp(sid, key) == [kind |-> "del", svc |-> sid, key |-> key, val |-> Absent]

\* --- Service.__setitem__ / Service.__delitem__, step by step
\* The in-memory mutation (and __delitem__'s `if key in self._config`).
Mutate(t) ==
  /\ th[t].pc = "op"
  /\ th[t].ops # <<>>
  /\ LET o == Head(th[t].ops)
         d == config[o.svc]
     IN IF o.kind = "set"
        THEN /\ config' = [config EXCEPT ![o.svc] = setitem_mem(d, o.key, o.val)]
             /\ th' = [th EXCEPT ![t].pc = "save", ![t].pre = d]
        ELSE IF haskey(d, o.key)
        THEN /\ config' = [config EXCEPT ![o.svc] = delitem_mem(d, o.key)]
             /\ th' = [th EXCEPT ![t].pc = "save", ![t].pre = d]
        ELSE /\ config' = config
             /\ th' = [th EXCEPT ![t].ops = Tail(th[t].ops)]
  /\ UNCHANGED <<store, avail, order, session, issued, nreq, failed, cbSeen,
                 boot, envToken, resp>>

\* mongo.services.save(self._config): the dict is encoded and sent ...
SaveSend(t) ==
  /\ th[t].pc = "save"
  /\ th' = [th EXCEPT ![t].pc = "wait", ![t].snap = config[Head(th[t].ops).svc]]
  /\ UNCHANGED <<store, config, avail, order, session, issued, nreq, failed,
                 cbSeen, boot, envToken, resp>>

\* ... and the server applies and acknowledges the write,
SaveOk(t) ==
  /\ th[t].pc = "wait"
  /\ store' = save(store, th[t].snap)
  /\ th' = [th EXCEPT ![t].pc = "op", ![t].ops = Tail(th[t].ops),
                      ![t].snap = NoDoc, ![t].pre = NoDoc]
  /\ UNCHANGED <<config, avail, order, session, issued, nreq, failed,
                 cbSeen, boot, envToken, resp>>

\* ... or the write fails and pymongo's exception leaves the handler.
SaveFail(t) ==
  /\ th[t].pc = "wait"
  /\ Finish(t, [th[t] EXCEPT !.ops = <<Head(th[t].ops)>>, !.snap = NoDoc],
            500, "PersistenceError")
  /\ failed' = TRUE
  /\ UNCHANGED <<store, config, avail, order, session, issued, nreq, cbSeen,
                 boot, envToken>>

\* return redirect(...) once the handler's config operations are through.
OpsDone(t) ==
  /\ th[t].pc = "op"
  /\ th[t].ops = <<>>
  /\ Finish(t, th[t], 302, "none")
  /\ UNCHANGED <<store, config, avail, order, session, issued, nreq, failed,
                 cbSeen, boot, envToken>>

\* ------------------------------------------------------------ /giffed
\* A variant of the test below that takes every returned value as true.
TruthyAny(meta) == meta \in {"meta", "empty"}

\* `if meta:` the truth value of what process returned
Truthy(meta) == meta = "meta"

\* What a process call can come to: the third party's client raises, or returns
\* a non-empty or an empty (falsy) result.
ProcessOutcomes == {"raise", "meta", "empty"}

giffed(t) ==
  /\ CanStart(t)
  /\ Begin(t, [Idle EXCEPT !.h = "giffed", !.pc = "visit", !.todo = order])
  /\ UNCHANGED <<store, config, avail, order, session, issued, failed,
                 cbSeen, boot, envToken, resp>>

\* for sid, service in services.items(): if service.is_available and service.is_enabled
Visit(t) ==
  /\ th[t].pc = "visit"
  /\ th[t].todo # <<>>
  /\ LET sid == Head(th[t].todo)
         en == is_available(sid) /\ is_enabled(config[sid])
     IN IF en
        THEN th' = [th EXCEPT ![t].pc = "process"]
        ELSE th' = [th EXCEPT ![t].todo = Tail(th[t].todo),
                              ![t].log = th[t].log \cup
                                {[sid |-> sid, avail |-> is_available(sid),
                                  enabled |-> is_enabled(config[sid]),
                                  cred |-> None, outcome |-> "skipped"]}]
  /\ UNCHANGED <<store, config, avail, order, session, issued, nreq, failed,
                 cbSeen, boot, envToken, resp>>

\* meta = service.process(payload): the client is built from self['access_token']
\* as it is now and the submission is made; `if meta:` records the result.
Process(t) ==
  /\ th[t].pc = "process"
  /\ \E out \in ProcessOutcomes :
       LET sid == Head(th[t].todo)
           e == [sid |-> sid, avail |-> TRUE, enabled |-> TRUE,
                 cred |-> getitem(config[sid], "access_token"), outcome |-> out]
           r == [th[t] EXCEPT !.log = th[t].log \cup {e}]
       IN IF out = "raise"
          THEN Finish(t, r, 500, "ProcessError")
          ELSE /\ th' = [th EXCEPT ![t] =
                          [r EXCEPT !.pc = "visit", !.todo = Tail(th[t].todo),
                                    !.active = IF Truthy(out)
                                               THEN th[t].active \cup {sid}
                                               ELSE th[t].active]]
               /\ resp' = resp
  /\ UNCHANGED <<store, config, avail, order, session, issued, nreq, failed,
                 cbSeen, boot, envToken>>

\* return jsonify(response)
GiffedReturn(t) ==
  /\ th[t].pc = "visit"
  /\ th[t].todo = <<>>
  /\ Finish(t, th[t], 200, "none")
  /\ UNCHANGED <<store, config, avail, order, session, issued, nreq, failed,
                 cbSeen, boot, envToken>>

\* ------------------------------------------------------------ logout
\* The logout route of each provider.
LogoutHandler == [dropbox |-> "dropbox_logout", tumblr |-> "tumblr_logout"]

\* dropbox_logout / tumblr_logout: del services[sid]['access_token']
logout(t, sid) ==
  /\ CanStart(t)
  /\ Begin(t, [Idle EXCEPT !.h = LogoutHandler[sid], !.pc = "op",
                           !.ops = <<DelOp(sid, "access_token")>>])
  /\ UNCHANGED <<store, config, avail, order, session, issued, failed,
                 cbSeen, boot, envToken, resp>>

\* ------------------------------------------------------------ Tumblr (OAuth1)
tumblr_auth(t) ==
  /\ CanStart(t)
  /\ Begin(t, [Idle EXCEPT !.h = "tumblr_auth", !.pc = "reqtok"])
  /\ UNCHANGED <<store, config, avail, order, session, issued, failed,
                 cbSeen, boot, envToken, resp>>

\* flow.get_request_token(): the server issues a new token/secret pair (pair i
\* is token i with secret i); the two assignments follow.
RequestToken(t) ==
  /\ th[t].pc = "reqtok"
  /\ issued < MaxIssue
  /\ issued' = issued + 1
  /\ th' = [th EXCEPT ![t].pc = "op",
                      ![t].ops = <<SetOp("tumblr", "request_token", issued + 1),
                                   SetOp("tumblr", "request_secret", issued + 1)>>]
  /\ UNCHANGED <<store, config, avail, order, session, nreq, failed, cbSeen,
                 boot, envToken, resp>>

\* ... or the request-token call raises.
RequestTokenFail(t) ==
  /\ th[t].pc = "reqtok"
  /\ Finish(t, th[t], 500, "OAuthError")
  /\ UNCHANGED <<store, config, avail, order, session, issued, nreq, failed,
                 cbSeen, boot, envToken>>

\* tumblr_callback: `if oauth_token and oauth_verifier:` else straight to the redirect.
tumblr_callback(t) ==
  /\ CanStart(t)
  /\ \E k \in {"complete", "missing"} :
       Begin(t, [Idle EXCEPT !.h = "tumblr_callback",
                             !.pc = IF k = "complete" THEN "read" ELSE "op",
                             !.arg = [state |-> 0, kind |-> k]])
  /\ UNCHANGED <<store, config, avail, order, session, issued, failed,
                 cbSeen, boot, envToken, resp>>

\* The arguments of get_access_token, evaluated left to right:
\* service['request_token'] ...
ReadToken(t) ==
  /\ th[t].pc = "read"
  /\ th' = [th EXCEPT ![t].pc = "exchange",
                      ![t].rt = getitem(config["tumblr"], "request_token")]
  /\ UNCHANGED <<store, config, avail, order, session, issued, nreq, failed,
                 cbSeen, boot, envToken, resp>>

\* The server grants an access token for a token and secret of one issuance.
Grants(rt, rs) == rt # None /\ rs # None /\ rt = rs

\* ... service['request_secret'], and the call: an access token comes back, then
\* service['access_token'] = list(access_token) and the two deletes.
Exchange(t) ==
  /\ th[t].pc = "exchange"
  /\ LET rs == getitem(config["tumblr"], "request_secret")
     IN /\ Grants(th[t].rt, rs)
        /\ th' = [th EXCEPT ![t].pc = "op", ![t].rs = rs,
                            ![t].ops = <<SetOp("tumblr", "access_token", th[t].rt),
                                         DelOp("tumblr", "request_token"),
                                         DelOp("tumblr", "request_secret")>>]
  /\ UNCHANGED <<store, config, avail, order, session, issued, nreq, failed,
                 cbSeen, boot, envToken, resp>>

\* A failure path that also drops the stored credential.
ExchangeFailClears(t) ==
  /\ th[t].pc = "exchange"
  /\ Finish(t, [th[t] EXCEPT !.rs = getitem(config["tumblr"], "request_secret")],
            500, "OAuthError")
  /\ config' = [config EXCEPT !["tumblr"] = delitem_mem(@, "access_token")]
  /\ UNCHANGED <<store, avail, order, session, issued, nreq, failed,
                 cbSeen, boot, envToken>>

\* ... or get_access_token raises (the server refuses, the network fails).
ExchangeFail(t) ==
  /\ th[t].pc = "exchange"
  /\ Finish(t, [th[t] EXCEPT !.rs = getitem(config["tumblr"], "request_secret")],
            500, "OAuthError")
  /\ UNCHANGED <<store, config, avail, order, session, issued, nreq, failed,
                 cbSeen, boot, envToken>>

\* ------------------------------------------------------------ Dropbox (OAuth2)
\* dropbox_auth: flow.start() puts a new CSRF token in the session and returns
\* the authorization URL that carries it as `state`.
dropbox_auth(t) ==
  /\ IdleThread(t)
  /\ session < MaxTok
  /\ session' = session + 1
  /\ Finish(t, [Idle EXCEPT !.h = "dropbox_auth",
                            !.arg = [state |-> session + 1, kind |-> "url"]],
            302, "none")
  /\ UNCHANGED <<store, config, avail, order, issued, nreq, failed, cbSeen,
                 boot, envToken>>

\* What the third party's redirect back can carry: a code (approved), the user's
\* refusal, another error, or a malformed query.
CallbackKinds == {"code", "denied", "error", "malformed"}

\* Line 219 calls get_auth_flow(), a name the module never defines (the flow
\* factory is dropbox_auth_flow): evaluating it raises NameError before finish
\* is reached, whatever the request carries.
get_auth_flow(arg) == "NameError"

\* The except clauses of dropbox_callback, by the exception the try body raised:
\* the status the caller gets. abort(400) twice, abort(403); the NotApproved
\* clause redirects to url_for('home'), an endpoint no route defines (BuildError);
\* the ProviderException clause adds a str and an exception (TypeError) before
\* its abort(403); any other exception is not caught.
callback_status(exc) ==
  CASE exc = "BadRequest" -> 400
    [] exc = "BadState" -> 400
    [] exc = "Csrf" -> 403
    [] OTHER -> 500

\* The exception the caller's response stands for.
callback_exc(exc) ==
  CASE exc = "NotApproved" -> "BuildError"
    [] exc = "Provider" -> "TypeError"
    [] OTHER -> exc

dropbox_callback(t) ==
  /\ IdleThread(t)
  /\ \E st \in 0..MaxTok, k \in CallbackKinds :
       LET arg == [state |-> st, kind |-> k]
           raised == get_auth_flow(arg)
           good == k = "code" /\ st # 0 /\ st = session
       IN /\ Finish(t, [Idle EXCEPT !.h = "dropbox_callback", !.arg = arg,
                                    !.replay = st \in cbSeen],
                    callback_status(raised), callback_exc(raised))
          /\ cbSeen' = IF good THEN cbSeen \cup {st} ELSE cbSeen
  /\ UNCHANGED <<store, config, avail, order, session, issued, nreq, failed,
                 boot, envToken>>

\* ------------------------------------------------------------ startup
\* One process's module import: services = {'dropbox': DropboxService(),
\* 'tumblr': TumblrService()}, the constructors in this order.
BootOrder == <<"dropbox", "tumblr">>

NoConfig == [s \in Services |-> NoDoc]

BootStart == [pc |-> "find", todo |-> BootOrder, cfg |-> NoConfig, docid |-> 0]
BootDone == [pc |-> "done", todo |-> <<>>, cfg |-> NoConfig, docid |-> 0]

\* self._config = mongo.services.find_one({'service_id': self.service_id})
RegFind(p) ==
  /\ boot[p].pc = "find"
  /\ LET sid == Head(boot[p].todo)
         d == find_one(store, sid)
     IN boot' = [boot EXCEPT ![p].cfg[sid] = d,
                             ![p].pc = IF d = NoDoc THEN "insert" ELSE "env"]
  /\ UNCHANGED <<store, config, avail, order, session, issued, th, nreq,
                 failed, cbSeen, envToken, resp>>

\* if not self._config: doc_id = mongo.services.save(doc)
RegInsert(p) ==
  /\ boot[p].pc = "insert"
  /\ LET sid == Head(boot[p].todo)
         id == FreshId(store)
     IN /\ store' = save(store, NewDoc(id, sid))
        /\ boot' = [boot EXCEPT ![p].pc = "refind", ![p].docid = id]
  /\ UNCHANGED <<config, avail, order, session, issued, th, nreq, failed,
                 cbSeen, envToken, resp>>

\* self._config = mongo.services.find_one(doc_id)
RegRefind(p) ==
  /\ boot[p].pc = "refind"
  /\ boot' = [boot EXCEPT ![p].cfg[Head(boot[p].todo)] = store[boot[p].docid],
                          ![p].pc = "env", ![p].docid = 0]
  /\ UNCHANGED <<store, config, avail, order, session, issued, th, nreq,
                 failed, cbSeen, envToken, resp>>

\* DropboxService.__init__: if access_token: self['access_token'] = access_token;
\* then the next constructor, or the import is through.
RegEnv(p) ==
  /\ boot[p].pc = "env"
  /\ LET sid == Head(boot[p].todo)
         rest == Tail(boot[p].todo)
     IN IF sid = "dropbox" /\ envToken
        THEN boot' = [boot EXCEPT ![p].cfg[sid] =
                                    setitem_mem(boot[p].cfg[sid], "access_token", 1),
                                  ![p].pc = "envsave"]
        ELSE boot' = [boot EXCEPT ![p].todo = rest,
                                  ![p].pc = IF rest = <<>> THEN "done" ELSE "find"]
  /\ UNCHANGED <<store, config, avail, order, session, issued, th, nreq,
                 failed, cbSeen, envToken, resp>>

\* ... and __setitem__'s mongo.services.save(self._config)
RegEnvSave(p) ==
  /\ boot[p].pc = "envsave"
  /\ LET rest == Tail(boot[p].todo)
     IN /\ store' = save(store, boot[p].cfg[Head(boot[p].todo)])
        /\ boot' = [boot EXCEPT ![p].todo = rest,
                                ![p].pc = IF rest = <<>> THEN "done" ELSE "find"]
  /\ UNCHANGED <<config, avail, order, session, issued, th, nreq, failed,
                 cbSeen, envToken, resp>>

\* A save of the import fails: the exception ends the process.
RegSaveFail(p) ==
  /\ boot[p].pc \in {"insert", "envsave"}
  /\ boot' = [boot EXCEPT ![p].pc = "crashed"]
  /\ UNCHANGED <<store, config, avail, order, session, issued, th, nreq,
                 failed, cbSeen, envToken, resp>>

\* ------------------------------------------------------------ specifications
\* The collection a starting process may find: per service, no document yet or
\* the one an earlier run left (with or without a credential).
EarlierDocs(d, sid) ==
  {NoDoc} \cup {[NewDoc(d, sid) EXCEPT !.access_token = a] : a \in {Absent, 1}}

EarlierStores ==
  {[d \in DocIds |-> IF d = 1 THEN x ELSE IF d = 2 THEN y ELSE NoDoc] :
     x \in EarlierDocs(1, "dropbox"), y \in EarlierDocs(2, "tumblr")}

\* The store of a process that was constructed alone: one document per service.
ConstructedStores ==
  {st \in EarlierStores : st[1] # NoDoc /\ st[2] # NoDoc}

Orders == {<<"dropbox", "tumblr">>, <<"tumblr", "dropbox">>}

InitReg ==
  /\ store \in EarlierStores
  /\ envToken \in BOOLEAN
  /\ boot = [p \in Procs |-> BootStart]
  /\ config = NoConfig
  /\ avail = [s \in Services |-> TRUE]
  /\ order = BootOrder
  /\ session = 0
  /\ issued = 0
  /\ th = [t \in Threads |-> Idle]
  /\ resp = Idle
  /\ nreq = 0
  /\ failed = FALSE
  /\ cbSeen = {}

NextReg ==
  \E p \in Procs :
    \/ RegFind(p)
    \/ RegInsert(p)
    \/ RegRefind(p)
    \/ RegEnv(p)
    \/ RegEnvSave(p)
    \/ RegSaveFail(p)

SpecReg == InitReg /\ [][NextReg]_vars

Init ==
  /\ store \in ConstructedStores
  /\ config = [s \in Services |-> find_one(store, s)]
  /\ avail \in [Services -> BOOLEAN]
  /\ order \in Orders
  /\ session = 0
  /\ issued = 0
  /\ th = [t \in Threads |-> Idle]
  /\ resp = Idle
  /\ nreq = 0
  /\ failed = FALSE
  /\ cbSeen = {}
  /\ boot = [p \in Procs |-> BootDone]
  /\ envToken = FALSE

Next ==
  \E t \in Threads :
    \/ giffed(t)
    \/ Visit(t)
    \/ Process(t)
    \/ GiffedReturn(t)
    \/ \E sid \in Services : logout(t, sid)
    \/ tumblr_auth(t)
    \/ RequestToken(t)
    \/ RequestTokenFail(t)
    \/ tumblr_callback(t)
    \/ ReadToken(t)
    \/ Exchange(t)
    \/ ExchangeFail(t)
    \/ Mutate(t)
    \/ SaveSend(t)
    \/ SaveOk(t)
    \/ SaveFail(t)
    \/ OpsDone(t)

Spec == Init /\ [][Next]_vars

\* The Dropbox authorization endpoints, which touch the session and nothing
\* of the config documents: any number of authorize-starts and callbacks.
NextFlow ==
  \E t \in Threads :
    \/ dropbox_auth(t)
    \/ dropbox_callback(t)

SpecFlow == Init /\ [][NextFlow]_vars

\* ------------------------------------------------------------ properties
\* No request is being handled.
\* The callbacks of both providers, with the Tumblr authorize-start that stores
\* what the Tumblr callback exchanges (dropbox_auth is in SpecFlow: the Dropbox
\* callback ends before it reads the session).
NextCallback ==
  \E t \in Threads :
    \/ tumblr_auth(t) \/ RequestToken(t) \/ RequestTokenFail(t)
    \/ tumblr_callback(t) \/ ReadToken(t) \/ Exchange(t) \/ ExchangeFail(t)
    \/ dropbox_callback(t)
    \/ Mutate(t) \/ SaveSend(t) \/ SaveOk(t) \/ SaveFail(t) \/ OpsDone(t)

\* No callback and no authorize-start reads is_available or the order of the
\* registry, and none of these reads or writes the Dropbox document (the
\* Dropbox callback ends at line 219): one value of each stands for all, for
\* the Dropbox document one with a credential to lose.
InitCallback ==
  /\ Init
  /\ avail = [s \in Services |-> TRUE]
  /\ order = BootOrder
  /\ is_enabled(config["dropbox"])

SpecCallback == InitCallback /\ [][NextCallback]_vars

Quiescent == \A t \in Threads : th[t].pc = "idle"

\* The persisted document of a provider: the one its `_config` was read from.
Persisted(sid) == store[config[sid].id]

\* The last request handled was this handler's, and its response is out.
Handled(h) == resp.pc = "done" /\ resp.h = h

\* C1: whenever no operation is in progress, is_enabled of a provider is true
\* iff the persisted access_token field of its document is present and non-empty
\* (whatever operations went before, failed persistence writes included).
C1_EnabledIffPersisted ==
  Quiescent =>
    \A sid \in Services :
      is_enabled(config[sid]) <=> Persisted(sid).access_token # Absent

\* C2: a broadcast never fails: it returns normally (no exception escapes it)
\* and has gone through every registered provider, also when a provider's
\* process call raised.
C2_BroadcastNeverFails ==
  Handled("giffed") =>
    /\ resp.status = 200
    /\ resp.exc = "none"
    /\ \A sid \in Services : \E e \in resp.log : e.sid = sid

\* The providers of a finished broadcast whose log entry satisfies P.
Logged(P(_)) == {e.sid : e \in {x \in resp.log : P(x)}}

RanTruthy(e) == e.avail /\ e.enabled /\ e.outcome = "meta"
RanNoRaise(e) == e.avail /\ e.enabled /\ e.outcome \in {"meta", "empty"}

C4_RequestTokenCleared ==
  (Quiescent /\ Handled("tumblr_callback") /\ resp.arg.kind = "complete") =>
    /\ ~haskey(config["tumblr"], "request_token")
    /\ ~haskey(config["tumblr"], "request_secret")
    /\ ~haskey(Persisted("tumblr"), "request_token")
    /\ ~haskey(Persisted("tumblr"), "request_secret")

\* C5: a Dropbox callback that carries a state token which an earlier callback
\* already used to complete the flow (approved, well formed, the live token of
\* the session) fails with the bad-state error.
C5_CallbackSingleUse ==
  (Handled("dropbox_callback") /\ resp.replay) => resp.exc = "BadState"

\* C6: after an authorize-start issued state token T, a callback with another
\* state token fails with the bad-state error, and a callback with T and the
\* third party's refusal fails with the not-approved error.
C6_BadStateAndNotApproved ==
  (Handled("dropbox_callback") /\ session # 0) =>
    /\ (resp.arg.kind = "code" /\ resp.arg.state \notin {0, session})
         => resp.exc = "BadState"
    /\ (resp.arg.kind = "denied" /\ resp.arg.state = session)
         => resp.exc = "NotApproved"

\* C7: when concurrent registrations have all completed, the collection holds
\* exactly one document per provider identifier.
C7_OneDocumentPerService ==
  (\A p \in Procs : boot[p].pc = "done") =>
    \A sid \in Services : Cardinality(DocsOf(store, sid)) = 1

\* C8: when the persistence write of a set or delete fails, the in-memory
\* document is what it was before the call.
C8_FailedWriteLeavesMemory ==
  (Quiescent /\ resp.pc = "done" /\ resp.exc = "PersistenceError") =>
    config[Head(resp.ops).svc] = resp.pre

\* C9: no update is lost: once all operations have completed (none of them
\* failed), the persisted document of every provider equals the in-memory one.
C9_NoLostUpdate ==
  (Quiescent /\ ~failed) => \A sid \in Services : Persisted(sid) = config[sid]

\* Every process call this state knows of (running or of the last broadcast).
ProcessCalls ==
  {e \in resp.log \cup UNION {th[t].log : t \in Threads} : e.outcome # "skipped"}

\* C10: process is never run for a provider that is not enabled: a call made
\* while the credential is missing fails with the not-configured error.
C10_ProcessOnlyWhenEnabled ==
  \A e \in ProcessCalls : e.cred = None => e.outcome = "not_configured"

\* C11: within one broadcast the process calls of the qualifying providers
\* overlap: while one provider's call is outstanding (the dispatcher is at
\* "process"; the call returns in the Process step), no other available and
\* enabled provider of the registry is still waiting for its call to start.
C11_ProcessCallsOverlap ==
  \A t \in Threads :
    (th[t].h = "giffed" /\ th[t].pc = "process") =>
      \A i \in 2..Len(th[t].todo) :
        ~(is_available(th[t].todo[i]) /\ is_enabled(config[th[t].todo[i]]))

\* The five errors DropboxOAuth2Flow.finish raises, as dropbox_callback
\* catches them.
FlowErrors == {"BadRequest", "BadState", "Csrf", "NotApproved", "Provider"}

\* C12: each of the five authorization-flow errors of the Dropbox callback is
\* surfaced with a status that differs from the status of each of the other
\* four: the status a handled callback shows its caller is the status of at
\* most one of the five.
C12_DistinctStatuses ==
  Handled("dropbox_callback") =>
    Cardinality({e \in FlowErrors : callback_status(e) = resp.status}) <= 1

ExchangeCalled ==
  {r \in {resp} \cup {th[t] : t \in Threads} :
     /\ r.h = "tumblr_callback" /\ r.arg.kind = "complete"
     /\ r.pc \notin {"read", "exchange"}}

\* C14: the Tumblr callback performs the access-token exchange only when a
\* request_token / request_secret pair stored by an authorize-start is present
\* (not yet consumed): a callback that finds none does not contact the third
\* party.
C14_ExchangeOnlyWhenLive ==
  \A r \in ExchangeCalled : r.rt # None /\ r.rs # None

\* The access credential of every provider, in memory and persisted.
Creds ==
  [sid \in Services |->
     <<config[sid].access_token, Persisted(sid).access_token>>]

\* C15: a callback that does not obtain a credential leaves access_token (and
\* so is_enabled) of every provider as it was: no step of a Dropbox callback,
\* and no step of a Tumblr callback that has no access token in hand (its
\* parameters are missing, or the exchange has not returned one or raises),
\* changes the in-memory or the persisted access_token.
C15_FailedCallbackFrame ==
  [][/\ (resp' # resp /\ resp'.h = "dropbox_callback") => Creds' = Creds
     /\ \A t \in Threads :
          ( /\ th'[t] # th[t]
            /\ "tumblr_callback" \in {th[t].h, th'[t].h}
            /\ th[t].ops = <<>> ) => Creds' = Creds]_vars

\* A Tumblr callback whose exchange raised, with a request token stored, has
\* ended and the provider is enabled as before.
C15_Witness ==
  /\ Handled("tumblr_callback") /\ resp.exc = "OAuthError"
  /\ resp.rt # None
  /\ is_enabled(config["tumblr"])
  /\ is_enabled(Persisted("tumblr"))

\* C16: under any interleaving of concurrent Tumblr authorize-starts (no write
\* of which failed), whenever both request_token and request_secret are stored
\* and no authorize-start is in progress, the two are of one issuance.
C16_PairFromOneIssuance ==
  ((\A t \in Threads : th[t].h # "tumblr_auth") /\ ~failed) =>
    \A d \in {config["tumblr"], Persisted("tumblr")} :
      (haskey(d, "request_token") /\ haskey(d, "request_secret")) =>
        d.request_token = d.request_secret

\* The provider a running or finished logout request is for.
LogoutOf(r) == CHOOSE sid \in Services : LogoutHandler[sid] = r.h

\* A step of thread t while it handles a logout of sid.
LogoutStep(t, sid) ==
  /\ th'[t] # th[t]
  /\ LogoutHandler[sid] \in {th[t].h, th'[t].h}

====
